---- MODULE Spec2Model ----
(***************************************************************************)
(* Frame transport of comm/socks.py: a sender and a receiver joined by one *)
(* TCP connection.  Bytes are naturals 0..255, texts are sequences of      *)
(* character codes, and each direction of the connection is a byte stream: *)
(* send appends to it, recv(n) removes a non-empty prefix of at most n     *)
(* bytes, blocks while the stream is empty and the peer is open, and       *)
(* returns the empty sequence once the peer has closed.  The sockets are   *)
(* blocking, so send() hands the whole buffer to the stream.               *)
(*                                                                         *)
(* socks.py holds the library functions only.  The two drivers that call   *)
(* them (main_client.py / main_server.py) are not part of the source tree; *)
(* their steps (named SDriver.., RDriver..) follow the wire protocol of    *)
(* the specification, section 6.                                           *)
(***************************************************************************)
EXTENDS Integers, Sequences, FiniteSets, TLC

VARIABLES
    \* the connection
    c2s,        \* bytes sent by the sender, not yet read by the receiver
    s2c,        \* bytes sent by the receiver, not yet read by the sender
    sclosed,    \* the sender's end is closed
    rclosed,    \* the receiver's end is closed
    \* sender
    spc,        \* position of the sender
    total,      \* frame_nbr given to send_total_frame_nbr
    inc,        \* increment given to send_increment_nbr
    base,       \* starting frame number (both drivers are given it)
    sframe,     \* frame number the sender is at
    scount,     \* frames the sender has completed
    file,       \* content of the file at frame_loc
    fpos,       \* read position of filedesc in send_frame
    buf,        \* buf of send_frame
    smsg,       \* msg of waiting_for_ack
    \* receiver
    rpc,        \* position of the receiver
    rmsg,       \* last result of receive_bytes_to_string
    rtotal,     \* total frame count as the receiver read it
    rinc,       \* increment as the receiver read it
    rframe,     \* frame number the receiver is at
    rcount,     \* frames the receiver has completed
    frame_size, \* frame_size of receive_frame
    img_size,   \* img_size of receive_frame
    save_loc,   \* save_loc of receive_frame
    files,      \* the receiver's file system: file name -> content
    \* history
    announced,  \* value of the size message sent for the sender's frame
    handed,     \* body bytes send_frame has handed to the connection
    nsizes,     \* size messages the sender has put on the connection
    sacks,      \* the message waiting_for_ack returned on, per completed call
    rsent,      \* the messages the receiver has put on the connection
    stored,     \* frame numbers whose receive_frame has returned, in order
    modified,   \* the file at frame_loc was rewritten after its size was sent
    \* connection factory
    csock,      \* the call of init_client_socket and the socket it creates
    ssock       \* the call of init_server_socket and the socket it creates

conn  == <<c2s, s2c, sclosed, rclosed>>
sdrv  == <<total, inc, base, sframe, scount>>
sfile == <<file, fpos, buf>>
rdrv  == <<rtotal, rinc, rframe, rcount, save_loc>>
rfrm  == <<frame_size, img_size, files>>
shist == <<announced, handed, nsizes, sacks, modified>>
rhist == <<rsent, stored>>
svars == <<spc, sdrv, sfile, smsg, shist>>
rvars == <<rpc, rmsg, rdrv, rfrm, rhist>>
fac   == <<csock, ssock>>
vars  == <<conn, svars, rvars, fac>>

----------------------------------------------------------------------------
(* Bounds of the model *)

\* longest short frame body
MaxLen == 1
\* largest total frame count
MaxFrames == 2
\* a recv returns at most MaxSplit bytes, or all it may return less at most MaxSplit
MaxSplit == 2

\* longest short body / stream of the single-frame specifications
MaxBody == 3

\* the read size of recv and readline
BUFSIZE == 1024

NL == 10
\* byte values of frame bodies: newline, the digit 0, and 0xFF
ByteVals == {NL, 48, 255}
Bases == {0, 9}
Incs == {0, 1}
SaveLocs == {<<115, 47>>}

Min(a, b) == IF a < b THEN a ELSE b

RECURSIVE SeqsUpTo(_)
SeqsUpTo(n) ==
    IF n = 0 THEN {<<>>}
    ELSE LET S == SeqsUpTo(n - 1)
         IN  S \cup {Append(s, b) : s \in {t \in S : Len(t) = n - 1}, b \in ByteVals}

\* the files of a transfer: every short content, and one of two digit bytes
ShortBodies == SeqsUpTo(MaxLen) \cup {<<48, 48>>}
\* bodies longer than one read: no newline / a newline inside
LongBodies ==
    { [i \in 1..(BUFSIZE + 1) |-> 255],
      [i \in 1..(BUFSIZE + 3) |-> IF i = 2 THEN NL ELSE 48] }

\* the bodies of the single-frame specifications
FrameBodies == SeqsUpTo(MaxBody) \cup LongBodies
\* the frame sizes receive_frame is given when it runs alone
RecvSizes == 0..(MaxBody + 1) \cup {BUFSIZE, BUFSIZE + 1}

----------------------------------------------------------------------------
(* Text *)

\* str(n) for n >= 0, as character codes
RECURSIVE Str(_)
Str(n) == IF n < 10 THEN <<48 + n>> ELSE Str(n \div 10) \o <<48 + (n % 10)>>

\* "frame", ".jpg", "OK FRAME "
TxtFrame == <<102, 114, 97, 109, 101>>
TxtJpg == <<46, 106, 112, 103>>
TxtOkFrame == <<79, 75, 32, 70, 82, 65, 77, 69, 32>>

\* bytes.decode('utf-8') succeeds; over ASCII and 0xFF, exactly when all bytes are ASCII
Utf8Valid(bs) == \A i \in 1..Len(bs) : bs[i] < 128

IsNotNL(b) == b # NL
\* str.replace("\n", "")
StripNL(s) == SelectSeq(s, IsNotNL)

\* int(s) succeeds: over digits and 0xFF, exactly the non-empty digit strings
IsDecimal(s) == Len(s) > 0 /\ \A i \in 1..Len(s) : s[i] \in 48..57
RECURSIVE IntOf(_)
IntOf(s) ==
    IF Len(s) = 0 THEN 0
    ELSE 10 * IntOf(SubSeq(s, 1, Len(s) - 1)) + (s[Len(s)] - 48)

----------------------------------------------------------------------------
(* Connection and files *)

\* the lengths a recv(n) may return when avail > 0 bytes are in the stream
RecvLens(n, avail) ==
    LET m == Min(n, avail)
    IN  {k \in 1..m : k <= MaxSplit \/ k >= m - MaxSplit}

\* readline that leaves the newline out of the line it returns
ReadLine_Strip(f, pos, n) ==
    LET m == Min(n, Len(f) - pos)
        nl == {i \in 1..m : f[pos + i] = NL}
        k == IF nl = {} THEN m ELSE (CHOOSE i \in nl : \A j \in nl : i <= j) - 1
    IN  SubSeq(f, pos + 1, pos + k)

\* filedesc.readline(n) at position pos: up to n bytes, ending after the first newline
ReadLine(f, pos, n) ==
    LET m == Min(n, Len(f) - pos)
        nl == {i \in 1..m : f[pos + i] = NL}
        k == IF nl = {} THEN m ELSE CHOOSE i \in nl : \A j \in nl : i <= j
    IN  SubSeq(f, pos + 1, pos + k)

\* the file name receive_frame writes to
FileName(loc, frame) == loc \o TxtFrame \o Str(frame) \o TxtJpg

\* open(filename, 'wb'): created or truncated
Truncated(fs, name) ==
    [n \in DOMAIN fs \cup {name} |-> IF n = name THEN <<>> ELSE fs[n]]

\* an acknowledgment sent as a line
AckText_NL(frame) == TxtOkFrame \o Str(frame) \o <<NL>>

\* the text send_frame_ack sends
AckText(frame) == TxtOkFrame \o Str(frame)

\* the text waiting_for_ack waits for
AckWanted(frame) == TxtOkFrame \o Str(frame)

----------------------------------------------------------------------------
(* Connection factory *)

\* the default of the port parameter
DefaultPort == 5000
Ports == {DefaultPort, DefaultPort + 1}
\* the address argument of init_server_socket: omitted (None) or given
ServerAddrs == {"None", "addr"}

\* a call that has not started
ClientCall(port) ==
    [pc |-> "socket", state |-> "none", address |-> "addr", port |-> port,
     peer |-> <<>>, attempts |-> 0, handle |-> FALSE]
ServerCall(address, port) ==
    [pc |-> "socket", state |-> "none", address |-> address, port |-> port,
     local |-> <<>>, peers |-> 0, attempts |-> 0, handle |-> FALSE]

\* the sockets of a transfer: the calls have returned
ClientReady ==
    [pc |-> "returned", state |-> "connected", address |-> "addr",
     port |-> DefaultPort, peer |-> <<"addr", DefaultPort>>, attempts |-> 1,
     handle |-> TRUE]
ServerReady ==
    [pc |-> "returned", state |-> "bound", address |-> "addr",
     port |-> DefaultPort, local |-> <<"addr", DefaultPort>>, peers |-> 0,
     attempts |-> 1, handle |-> TRUE]

\* init_client_socket: socket.socket(AF_INET, SOCK_STREAM)
ics_socket ==
    /\ csock.pc = "socket"
    /\ csock' = [csock EXCEPT !.pc = "connect", !.state = "open"]
    /\ UNCHANGED <<conn, svars, rvars, ssock>>

\* init_client_socket: client_socket.connect((address, port)) succeeds or raises
ics_connect ==
    /\ csock.pc = "connect"
    /\ \/ csock' = [csock EXCEPT !.pc = "return", !.state = "connected",
                                 !.peer = <<csock.address, csock.port>>,
                                 !.attempts = @ + 1]
       \/ csock' = [csock EXCEPT !.pc = "raised", !.attempts = @ + 1]
    /\ UNCHANGED <<conn, svars, rvars, ssock>>

\* init_client_socket: return client_socket
ics_return ==
    /\ csock.pc = "return"
    /\ csock' = [csock EXCEPT !.pc = "returned", !.handle = TRUE]
    /\ UNCHANGED <<conn, svars, rvars, ssock>>

\* the interpreter finalises the socket object nothing refers to any more
ics_collect ==
    /\ csock.pc = "raised"
    /\ csock.state = "open"
    /\ csock' = [csock EXCEPT !.state = "closed"]
    /\ UNCHANGED <<conn, svars, rvars, ssock>>

\* init_server_socket: socket.socket(AF_INET, SOCK_STREAM)
iss_socket ==
    /\ ssock.pc = "socket"
    /\ ssock' = [ssock EXCEPT !.pc = "resolve", !.state = "open"]
    /\ UNCHANGED <<conn, svars, rvars, csock>>

\* a server that binds the wildcard address when none is given
iss_resolve_Any ==
    /\ ssock.pc = "resolve"
    /\ ssock' = [ssock EXCEPT !.pc = "bind",
                              !.local = <<IF ssock.address = "None" THEN "any"
                                          ELSE ssock.address, ssock.port>>]
    /\ UNCHANGED <<conn, svars, rvars, csock>>

\* init_server_socket: if address is None, gethostbyname(gethostname()), or its error
iss_resolve ==
    /\ ssock.pc = "resolve"
    /\ IF ssock.address = "None"
       THEN \/ ssock' = [ssock EXCEPT !.pc = "bind",
                                      !.local = <<"host", ssock.port>>]
            \/ ssock' = [ssock EXCEPT !.pc = "raised"]
       ELSE ssock' = [ssock EXCEPT !.pc = "bind",
                                   !.local = <<ssock.address, ssock.port>>]
    /\ UNCHANGED <<conn, svars, rvars, csock>>

\* init_server_socket: server_socket.bind((address, port)) succeeds or raises
iss_bind ==
    /\ ssock.pc = "bind"
    /\ \/ ssock' = [ssock EXCEPT !.pc = "return", !.state = "bound",
                                 !.attempts = @ + 1]
       \/ ssock' = [ssock EXCEPT !.pc = "raised", !.attempts = @ + 1]
    /\ UNCHANGED <<conn, svars, rvars, csock>>

\* init_server_socket: return server_socket
iss_return ==
    /\ ssock.pc = "return"
    /\ ssock' = [ssock EXCEPT !.pc = "returned", !.handle = TRUE]
    /\ UNCHANGED <<conn, svars, rvars, csock>>

\* the interpreter finalises the socket object nothing refers to any more
iss_collect ==
    /\ ssock.pc = "raised"
    /\ ssock.state = "open"
    /\ ssock' = [ssock EXCEPT !.state = "closed"]
    /\ UNCHANGED <<conn, svars, rvars, csock>>

----------------------------------------------------------------------------
(* Sender *)

send_total_frame_nbr ==
    /\ spc = "total"
    /\ c2s' = c2s \o Str(total)
    /\ spc' = "inc"
    /\ UNCHANGED <<s2c, sclosed, rclosed, sdrv, sfile, smsg, shist, rvars>>
    /\ UNCHANGED fac

send_increment_nbr ==
    /\ spc = "inc"
    /\ c2s' = c2s \o Str(inc)
    /\ spc' = "next"
    /\ UNCHANGED <<s2c, sclosed, rclosed, sdrv, sfile, smsg, shist, rvars>>
    /\ UNCHANGED fac

\* loop head of the sending driver: the next frame's file, or the end
SDriverNext ==
    /\ spc = "next"
    /\ IF scount < total
       THEN /\ \E b \in ShortBodies : file' = b
            /\ spc' = "size"
            /\ UNCHANGED sclosed
       ELSE /\ spc' = "done"
            /\ sclosed' = TRUE
            /\ UNCHANGED file
    /\ modified' = FALSE
    /\ UNCHANGED <<c2s, s2c, rclosed, sdrv, fpos, buf, smsg,
                   announced, handed, nsizes, sacks, rvars>>
    /\ UNCHANGED fac

\* a size message that counts one byte too many
send_frame_size_OffByOne ==
    /\ spc = "size"
    /\ LET filesize == Len(file) + 1
       IN  /\ c2s' = c2s \o Str(filesize)
           /\ announced' = filesize
    /\ nsizes' = nsizes + 1
    /\ handed' = 0
    /\ spc' = "sf_sleep"
    /\ UNCHANGED <<s2c, sclosed, rclosed, sdrv, sfile, smsg, sacks, modified, rvars>>
    /\ UNCHANGED fac

send_frame_size ==
    /\ spc = "size"
    /\ LET filesize == Len(file)
       IN  /\ c2s' = c2s \o Str(filesize)
           /\ announced' = filesize
    /\ nsizes' = nsizes + 1
    /\ handed' = 0
    /\ spc' = "sf_sleep"
    /\ UNCHANGED <<s2c, sclosed, rclosed, sdrv, sfile, smsg, sacks, modified, rvars>>
    /\ UNCHANGED fac

\* the capture side rewrites the file between getsize and open
FileModify ==
    /\ spc = "sf_sleep"
    /\ ~modified
    /\ \/ file' = Append(file, 48)
       \/ /\ Len(file) > 0
          /\ file' = SubSeq(file, 1, Len(file) - 1)
    /\ modified' = TRUE
    /\ UNCHANGED <<conn, spc, sdrv, fpos, buf, smsg,
                   announced, handed, nsizes, sacks, rvars>>
    /\ UNCHANGED fac

\* send_frame: time.sleep(sleep)
sf_sleep ==
    /\ spc = "sf_sleep"
    /\ spc' = "sf_open"
    /\ UNCHANGED <<conn, sdrv, sfile, smsg, shist, rvars>>
    /\ UNCHANGED fac

\* send_frame: open and the first readline
sf_open ==
    /\ spc = "sf_open"
    /\ buf' = ReadLine(file, 0, BUFSIZE)
    /\ fpos' = Len(buf')
    /\ spc' = "sf_loop"
    /\ UNCHANGED <<conn, sdrv, file, smsg, shist, rvars>>
    /\ UNCHANGED fac

\* send_frame: one test of the while loop, and its body or the return
sf_loop ==
    /\ spc = "sf_loop"
    /\ IF Len(buf) > 0
       THEN /\ c2s' = c2s \o buf
            /\ handed' = handed + Len(buf)
            /\ buf' = ReadLine(file, fpos, BUFSIZE)
            /\ fpos' = fpos + Len(buf')
            /\ UNCHANGED spc
       ELSE /\ spc' = "wa_recv"
            /\ UNCHANGED <<c2s, handed, buf, fpos>>
    /\ UNCHANGED <<s2c, sclosed, rclosed, sdrv, file, smsg,
                   announced, nsizes, sacks, modified, rvars>>
    /\ UNCHANGED fac

\* a wait that reads its message with the newlines removed
wa_recv_Strip ==
    /\ spc = "wa_recv"
    /\ \E data \in IF Len(s2c) > 0
                   THEN {SubSeq(s2c, 1, k) : k \in RecvLens(BUFSIZE, Len(s2c))}
                   ELSE IF rclosed THEN {<<>>} ELSE {} :
          /\ s2c' = SubSeq(s2c, Len(data) + 1, Len(s2c))
          /\ IF Utf8Valid(data)
             THEN /\ smsg' = StripNL(data)
                  /\ spc' = "wa_test"
                  /\ UNCHANGED sclosed
             ELSE /\ spc' = "error"
                  /\ sclosed' = TRUE
                  /\ UNCHANGED smsg
    /\ UNCHANGED <<c2s, rclosed, sdrv, sfile, shist, rvars>>
    /\ UNCHANGED fac

\* waiting_for_ack: msg = client_socket.recv(1024).decode('UTF-8')
wa_recv ==
    /\ spc = "wa_recv"
    /\ \E data \in IF Len(s2c) > 0
                   THEN {SubSeq(s2c, 1, k) : k \in RecvLens(BUFSIZE, Len(s2c))}
                   ELSE IF rclosed THEN {<<>>} ELSE {} :
          /\ s2c' = SubSeq(s2c, Len(data) + 1, Len(s2c))
          /\ IF Utf8Valid(data)
             THEN /\ smsg' = data
                  /\ spc' = "wa_test"
                  /\ UNCHANGED sclosed
             ELSE /\ spc' = "error"
                  /\ sclosed' = TRUE
                  /\ UNCHANGED smsg
    /\ UNCHANGED <<c2s, rclosed, sdrv, sfile, shist, rvars>>
    /\ UNCHANGED fac

\* a wait that ends on any message received
wa_test_AnyMsg ==
    /\ spc = "wa_test"
    /\ IF Len(smsg) = 0
       THEN /\ spc' = "wa_recv"
            /\ UNCHANGED sacks
       ELSE /\ spc' = "advance"
            /\ sacks' = Append(sacks, smsg)
    /\ UNCHANGED <<conn, sdrv, sfile, smsg, announced, handed, nsizes, modified, rvars>>
    /\ UNCHANGED fac

\* a wait that ends on a message the wanted text starts with
wa_test_Prefix ==
    /\ spc = "wa_test"
    /\ IF \/ Len(smsg) = 0
          \/ Len(smsg) > Len(AckWanted(sframe))
          \/ smsg # SubSeq(AckWanted(sframe), 1, Len(smsg))
       THEN /\ spc' = "wa_recv"
            /\ UNCHANGED sacks
       ELSE /\ spc' = "advance"
            /\ sacks' = Append(sacks, smsg)
    /\ UNCHANGED <<conn, sdrv, sfile, smsg, announced, handed, nsizes, modified, rvars>>
    /\ UNCHANGED fac

\* waiting_for_ack: the test of the while loop
wa_test ==
    /\ spc = "wa_test"
    /\ IF smsg # AckWanted(sframe)
       THEN /\ spc' = "wa_recv"
            /\ UNCHANGED sacks
       ELSE /\ spc' = "advance"
            /\ sacks' = Append(sacks, smsg)
    /\ UNCHANGED <<conn, sdrv, sfile, smsg, announced, handed, nsizes, modified, rvars>>
    /\ UNCHANGED fac

\* the sending driver moves to the next frame number
SDriverAdvance ==
    /\ spc = "advance"
    /\ sframe' = sframe + inc
    /\ scount' = scount + 1
    /\ spc' = "next"
    /\ UNCHANGED <<conn, total, inc, base, sfile, smsg, shist, rvars>>
    /\ UNCHANGED fac

----------------------------------------------------------------------------
(* Receiver *)

\* where the driver goes with the message it asked for
AfterRead(pc) ==
    CASE pc = "total" -> "total_p"
      [] pc = "inc" -> "inc_p"
      [] pc = "size" -> "size_p"

receive_bytes_to_string ==
    /\ rpc \in {"total", "inc", "size"}
    /\ \E byte_msg \in IF Len(c2s) > 0
                       THEN {SubSeq(c2s, 1, k) : k \in RecvLens(BUFSIZE, Len(c2s))}
                       ELSE IF sclosed THEN {<<>>} ELSE {} :
          /\ c2s' = SubSeq(c2s, Len(byte_msg) + 1, Len(c2s))
          /\ IF Utf8Valid(byte_msg)
             THEN /\ rmsg' = StripNL(byte_msg)
                  /\ rpc' = AfterRead(rpc)
                  /\ UNCHANGED rclosed
             ELSE /\ rpc' = "error"
                  /\ rclosed' = TRUE
                  /\ UNCHANGED rmsg
    /\ UNCHANGED <<s2c, sclosed, svars, rdrv, rfrm, rhist>>
    /\ UNCHANGED fac

\* the receiving driver reads the total frame count as an integer
RDriverTotal ==
    /\ rpc = "total_p"
    /\ IF IsDecimal(rmsg)
       THEN /\ rtotal' = IntOf(rmsg)
            /\ rpc' = "inc"
            /\ UNCHANGED rclosed
       ELSE /\ rpc' = "error"
            /\ rclosed' = TRUE
            /\ UNCHANGED rtotal
    /\ UNCHANGED <<c2s, s2c, sclosed, svars, rmsg, rinc, rframe, rcount, save_loc,
                   rfrm, rhist>>
    /\ UNCHANGED fac

\* the receiving driver reads the increment as an integer
RDriverInc ==
    /\ rpc = "inc_p"
    /\ IF IsDecimal(rmsg)
       THEN /\ rinc' = IntOf(rmsg)
            /\ rpc' = "next"
            /\ UNCHANGED rclosed
       ELSE /\ rpc' = "error"
            /\ rclosed' = TRUE
            /\ UNCHANGED rinc
    /\ UNCHANGED <<c2s, s2c, sclosed, svars, rmsg, rtotal, rframe, rcount, save_loc,
                   rfrm, rhist>>
    /\ UNCHANGED fac

\* loop head of the receiving driver
RDriverNext ==
    /\ rpc = "next"
    /\ IF rcount < rtotal
       THEN /\ rpc' = "size"
            /\ UNCHANGED rclosed
       ELSE /\ rpc' = "done"
            /\ rclosed' = TRUE
    /\ UNCHANGED <<c2s, s2c, sclosed, svars, rmsg, rdrv, rfrm, rhist>>
    /\ UNCHANGED fac

\* the receiving driver reads the frame size as an integer and calls receive_frame
RDriverSize ==
    /\ rpc = "size_p"
    /\ IF IsDecimal(rmsg)
       THEN /\ frame_size' = IntOf(rmsg)
            /\ rpc' = "rf_open"
            /\ UNCHANGED rclosed
       ELSE /\ rpc' = "error"
            /\ rclosed' = TRUE
            /\ UNCHANGED frame_size
    /\ UNCHANGED <<c2s, s2c, sclosed, svars, rmsg, rdrv, img_size, files, rhist>>
    /\ UNCHANGED fac

\* a receive_frame that opens no file for an empty frame
rf_open_SkipEmpty ==
    /\ rpc = "rf_open"
    /\ img_size' = 0
    /\ files' = IF frame_size = 0 THEN files
                ELSE Truncated(files, FileName(save_loc, rframe))
    /\ rpc' = "rf_loop"
    /\ UNCHANGED <<conn, svars, rmsg, rdrv, frame_size, rhist>>
    /\ UNCHANGED fac

\* receive_frame: img_size = 0 and open(filename, 'wb')
rf_open ==
    /\ rpc = "rf_open"
    /\ img_size' = 0
    /\ files' = Truncated(files, FileName(save_loc, rframe))
    /\ rpc' = "rf_loop"
    /\ UNCHANGED <<conn, svars, rmsg, rdrv, frame_size, rhist>>
    /\ UNCHANGED fac

\* a read loop that counts the reads, not the bytes
rf_loop_CountCalls ==
    /\ rpc = "rf_loop"
    /\ IF img_size < frame_size
       THEN LET remain == frame_size - img_size
                ask == IF remain < BUFSIZE THEN remain ELSE BUFSIZE
            IN  \E data \in IF Len(c2s) > 0
                            THEN {SubSeq(c2s, 1, k) : k \in RecvLens(ask, Len(c2s))}
                            ELSE IF sclosed THEN {<<>>} ELSE {} :
                   /\ c2s' = SubSeq(c2s, Len(data) + 1, Len(c2s))
                   /\ files' = [files EXCEPT ![FileName(save_loc, rframe)] = @ \o data]
                   /\ img_size' = img_size + 1
                   /\ UNCHANGED <<rpc, stored>>
       ELSE /\ rpc' = "ack"
            /\ stored' = Append(stored, rframe)
            /\ UNCHANGED <<c2s, files, img_size>>
    /\ UNCHANGED <<s2c, sclosed, rclosed, svars, rmsg, rdrv, frame_size, rsent>>
    /\ UNCHANGED fac

\* a read loop that keeps the last chunk only
rf_loop_LastChunk ==
    /\ rpc = "rf_loop"
    /\ IF img_size < frame_size
       THEN LET remain == frame_size - img_size
                ask == IF remain < BUFSIZE THEN remain ELSE BUFSIZE
            IN  \E data \in IF Len(c2s) > 0
                            THEN {SubSeq(c2s, 1, k) : k \in RecvLens(ask, Len(c2s))}
                            ELSE IF sclosed THEN {<<>>} ELSE {} :
                   /\ c2s' = SubSeq(c2s, Len(data) + 1, Len(c2s))
                   /\ files' = [files EXCEPT ![FileName(save_loc, rframe)] = data]
                   /\ img_size' = img_size + Len(data)
                   /\ UNCHANGED <<rpc, stored>>
       ELSE /\ rpc' = "ack"
            /\ stored' = Append(stored, rframe)
            /\ UNCHANGED <<c2s, files, img_size>>
    /\ UNCHANGED <<s2c, sclosed, rclosed, svars, rmsg, rdrv, frame_size, rsent>>
    /\ UNCHANGED fac

\* a read loop that returns when a read comes back empty
rf_loop_BreakOnEmpty ==
    /\ rpc = "rf_loop"
    /\ IF img_size < frame_size
       THEN LET remain == frame_size - img_size
                ask == IF remain < BUFSIZE THEN remain ELSE BUFSIZE
            IN  \E data \in IF Len(c2s) > 0
                            THEN {SubSeq(c2s, 1, k) : k \in RecvLens(ask, Len(c2s))}
                            ELSE IF sclosed THEN {<<>>} ELSE {} :
                   /\ c2s' = SubSeq(c2s, Len(data) + 1, Len(c2s))
                   /\ files' = [files EXCEPT ![FileName(save_loc, rframe)] = @ \o data]
                   /\ img_size' = img_size + Len(data)
                   /\ rpc' = IF data = <<>> THEN "ack" ELSE rpc
                   /\ stored' = IF data = <<>> THEN Append(stored, rframe) ELSE stored
       ELSE /\ rpc' = "ack"
            /\ stored' = Append(stored, rframe)
            /\ UNCHANGED <<c2s, files, img_size>>
    /\ UNCHANGED <<s2c, sclosed, rclosed, svars, rmsg, rdrv, frame_size, rsent>>
    /\ UNCHANGED fac

\* a read loop that asks for a full buffer every time
rf_loop_FixedRead ==
    /\ rpc = "rf_loop"
    /\ IF img_size < frame_size
       THEN LET ask == BUFSIZE
            IN  \E data \in IF Len(c2s) > 0
                            THEN {SubSeq(c2s, 1, k) : k \in RecvLens(ask, Len(c2s))}
                            ELSE IF sclosed THEN {<<>>} ELSE {} :
                   /\ c2s' = SubSeq(c2s, Len(data) + 1, Len(c2s))
                   /\ files' = [files EXCEPT ![FileName(save_loc, rframe)] = @ \o data]
                   /\ img_size' = img_size + Len(data)
                   /\ UNCHANGED <<rpc, stored>>
       ELSE /\ rpc' = "ack"
            /\ stored' = Append(stored, rframe)
            /\ UNCHANGED <<c2s, files, img_size>>
    /\ UNCHANGED <<s2c, sclosed, rclosed, svars, rmsg, rdrv, frame_size, rsent>>
    /\ UNCHANGED fac

\* receive_frame: one test of the while loop, and its body or the return
rf_loop ==
    /\ rpc = "rf_loop"
    /\ IF img_size < frame_size
       THEN LET remain == frame_size - img_size
                ask == IF remain < BUFSIZE THEN remain ELSE BUFSIZE
            IN  \E data \in IF Len(c2s) > 0
                            THEN {SubSeq(c2s, 1, k) : k \in RecvLens(ask, Len(c2s))}
                            ELSE IF sclosed THEN {<<>>} ELSE {} :
                   /\ c2s' = SubSeq(c2s, Len(data) + 1, Len(c2s))
                   /\ files' = [files EXCEPT ![FileName(save_loc, rframe)] = @ \o data]
                   /\ img_size' = img_size + Len(data)
                   /\ UNCHANGED <<rpc, stored>>
       ELSE /\ rpc' = "ack"
            /\ stored' = Append(stored, rframe)
            /\ UNCHANGED <<c2s, files, img_size>>
    /\ UNCHANGED <<s2c, sclosed, rclosed, svars, rmsg, rdrv, frame_size, rsent>>
    /\ UNCHANGED fac

send_frame_ack ==
    /\ rpc = "ack"
    /\ s2c' = s2c \o AckText(rframe)
    /\ rsent' = Append(rsent, AckText(rframe))
    /\ rpc' = "advance"
    /\ UNCHANGED <<c2s, sclosed, rclosed, svars, rmsg, rdrv, rfrm, stored>>
    /\ UNCHANGED fac

\* the receiving driver moves to the next frame number
RDriverAdvance ==
    /\ rpc = "advance"
    /\ rframe' = rframe + rinc
    /\ rcount' = rcount + 1
    /\ rpc' = "next"
    /\ UNCHANGED <<conn, svars, rmsg, rtotal, rinc, save_loc, rfrm, rhist>>
    /\ UNCHANGED fac

----------------------------------------------------------------------------
(* The transfer: both drivers from their first call *)

Init ==
    /\ c2s = <<>> /\ s2c = <<>> /\ sclosed = FALSE /\ rclosed = FALSE
    /\ spc = "total"
    /\ total \in 0..MaxFrames
    /\ inc \in Incs
    /\ base \in Bases
    /\ sframe = base
    /\ scount = 0
    /\ file = <<>> /\ fpos = 0 /\ buf = <<>> /\ smsg = <<>>
    /\ rpc = "total"
    /\ rmsg = <<>>
    /\ rtotal = 0 /\ rinc = 0
    /\ rframe = base
    /\ rcount = 0
    /\ frame_size = 0 /\ img_size = 0
    /\ save_loc \in SaveLocs
    /\ files = [n \in {} |-> <<>>]
    /\ announced = 0 /\ handed = 0 /\ nsizes = 0
    /\ sacks = <<>> /\ rsent = <<>> /\ stored = <<>>
    /\ modified = FALSE
    /\ csock = ClientReady
    /\ ssock = ServerReady

Next ==
    \/ send_total_frame_nbr
    \/ send_increment_nbr
    \/ SDriverNext
    \/ send_frame_size
    \/ sf_sleep
    \/ sf_open
    \/ sf_loop
    \/ wa_recv
    \/ wa_test
    \/ SDriverAdvance
    \/ receive_bytes_to_string
    \/ RDriverTotal
    \/ RDriverInc
    \/ RDriverNext
    \/ RDriverSize
    \/ rf_open
    \/ rf_loop
    \/ send_frame_ack
    \/ RDriverAdvance

Spec == Init /\ [][Next]_vars

(* The transfer while the capture side rewrites the files being sent *)

NextRewrite ==
    \/ Next
    \/ FileModify

SpecRewrite == Init /\ [][NextRewrite]_vars

----------------------------------------------------------------------------
(* One frame: send_frame(B) against receive_frame(frame_size = len(B)) *)

InitFrame ==
    /\ c2s = <<>> /\ s2c = <<>> /\ sclosed = FALSE /\ rclosed = FALSE
    /\ spc = "sf_sleep"
    /\ total = 1
    /\ inc \in Incs
    /\ base \in Bases
    /\ sframe = base
    /\ scount = 0
    /\ file \in FrameBodies
    /\ fpos = 0 /\ buf = <<>> /\ smsg = <<>>
    /\ rpc = "rf_open"
    /\ rmsg = Str(Len(file))
    /\ rtotal = 1 /\ rinc = inc
    /\ rframe = base
    /\ rcount = 0
    /\ frame_size = Len(file)
    /\ img_size = 0
    /\ save_loc \in SaveLocs
    /\ files = [n \in {} |-> <<>>]
    /\ announced = Len(file) /\ handed = 0 /\ nsizes = 1
    /\ sacks = <<>> /\ rsent = <<>> /\ stored = <<>>
    /\ modified = FALSE
    /\ csock = ClientReady
    /\ ssock = ServerReady

SendFrameStep ==
    \/ sf_sleep
    \/ sf_open
    \/ sf_loop

ReceiveFrameStep ==
    \/ rf_open
    \/ rf_loop

NextFrame ==
    \/ SendFrameStep
    \/ ReceiveFrameStep

SpecFrame == InitFrame /\ [][NextFrame]_vars

\* both processes keep running: a call that can proceed does
SpecFrameFair ==
    /\ InitFrame
    /\ [][NextFrame]_vars
    /\ WF_vars(SendFrameStep)
    /\ WF_vars(ReceiveFrameStep)

----------------------------------------------------------------------------
(* receive_frame alone, for any frame_size and any bytes on the connection *)

InitRecv ==
    /\ c2s \in FrameBodies
    /\ s2c = <<>>
    /\ sclosed \in BOOLEAN
    /\ rclosed = FALSE
    /\ spc = IF sclosed THEN "done" ELSE "wa_recv"
    /\ total = 1 /\ inc = 1
    /\ base \in Bases
    /\ sframe = base
    /\ scount = IF sclosed THEN 1 ELSE 0
    /\ file = <<>> /\ fpos = 0 /\ buf = <<>> /\ smsg = <<>>
    /\ rpc = "rf_open"
    /\ frame_size \in RecvSizes
    /\ rmsg = Str(frame_size)
    /\ rtotal = 1 /\ rinc = 1
    /\ rframe = base
    /\ rcount = 0
    /\ img_size = 0
    /\ save_loc \in SaveLocs
    /\ files = [n \in {} |-> <<>>]
    /\ announced = 0 /\ handed = 0 /\ nsizes = 1
    /\ sacks = <<>> /\ rsent = <<>> /\ stored = <<>>
    /\ modified = FALSE
    /\ csock = ClientReady
    /\ ssock = ServerReady

NextRecv ==
    \/ rf_open
    \/ rf_loop

SpecRecv == InitRecv /\ [][NextRecv]_vars

----------------------------------------------------------------------------
(* The two factory calls, before any transfer *)

InitFactory ==
    /\ c2s = <<>> /\ s2c = <<>> /\ sclosed = FALSE /\ rclosed = FALSE
    /\ spc = "total"
    /\ total = 1 /\ inc = 1 /\ base = 0
    /\ sframe = base
    /\ scount = 0
    /\ file = <<>> /\ fpos = 0 /\ buf = <<>> /\ smsg = <<>>
    /\ rpc = "total"
    /\ rmsg = <<>>
    /\ rtotal = 0 /\ rinc = 0
    /\ rframe = base
    /\ rcount = 0
    /\ frame_size = 0 /\ img_size = 0
    /\ save_loc \in SaveLocs
    /\ files = [n \in {} |-> <<>>]
    /\ announced = 0 /\ handed = 0 /\ nsizes = 0
    /\ sacks = <<>> /\ rsent = <<>> /\ stored = <<>>
    /\ modified = FALSE
    /\ \E port \in Ports : csock = ClientCall(port)
    /\ \E address \in ServerAddrs, port \in Ports : ssock = ServerCall(address, port)

NextFactory ==
    \/ ics_socket
    \/ ics_connect
    \/ ics_return
    \/ ics_collect
    \/ iss_socket
    \/ iss_resolve
    \/ iss_bind
    \/ iss_return
    \/ iss_collect

SpecFactory == InitFactory /\ [][NextFactory]_vars

----------------------------------------------------------------------------
(* waiting_for_ack on its own, against the texts a peer may send *)

\* the texts of the peer: the acknowledgment of the frame, the same as a line,
\* and the acknowledgment of the next frame
PeerTexts(frame) ==
    {AckWanted(frame), AckWanted(frame) \o <<NL>>, AckWanted(frame + 1)}

RECURSIVE PeerStreams(_, _)
PeerStreams(frame, n) ==
    IF n = 0 THEN {<<>>}
    ELSE LET shorter == PeerStreams(frame, n - 1)
         IN  shorter \cup {st \o t : st \in shorter, t \in PeerTexts(frame)}

InitAck ==
    /\ c2s = <<>>
    /\ base \in Bases
    /\ s2c \in PeerStreams(base, MaxFrames)
    /\ sclosed = FALSE
    /\ rclosed \in BOOLEAN
    /\ spc = "wa_recv"
    /\ total = 1 /\ inc = 1
    /\ sframe = base
    /\ scount = 0
    /\ file = <<>> /\ fpos = 0 /\ buf = <<>> /\ smsg = <<>>
    /\ rpc = IF rclosed THEN "done" ELSE "advance"
    /\ rmsg = <<>>
    /\ rtotal = 1 /\ rinc = 1
    /\ rframe = base
    /\ rcount = 0
    /\ frame_size = 0 /\ img_size = 0
    /\ save_loc \in SaveLocs
    /\ files = [n \in {} |-> <<>>]
    /\ announced = 0 /\ handed = 0 /\ nsizes = 1
    /\ sacks = <<>> /\ rsent = <<>> /\ stored = <<>>
    /\ modified = FALSE
    /\ csock = ClientReady
    /\ ssock = ServerReady

NextAck ==
    \/ wa_recv
    \/ wa_test

SpecAck == InitAck /\ [][NextAck]_vars

----------------------------------------------------------------------------
(* Properties *)

\* the text 'OK FRAME n'
OkFrameText(n) == <<79, 75, 32, 70, 82, 65, 77, 69, 32>> \o Str(n)
\* the file the running receive_frame writes, and its content so far
ImgName == FileName(save_loc, rframe)
Artifact == IF ImgName \in DOMAIN files THEN files[ImgName] ELSE <<>>
\* the part of the body send_frame has not handed to the connection yet
Unsent == SubSeq(file, handed + 1, Len(file))

\* C1: send_frame on a body B against receive_frame with frame_size = len(B):
\* receive_frame returns, and the stored artifact is then B, byte for byte.
C1_RoundTrip ==
    <>[](rpc = "ack" /\ ImgName \in DOMAIN files /\ files[ImgName] = file)

\* a body longer than one read has been stored
C1_Witness ==
    /\ rpc = "ack"
    /\ Len(file) = BUFSIZE + 1
    /\ files[ImgName] = file

\* C2: inside receive_frame the count of bytes written (img_size, the length of
\* the output) never exceeds frame_size, and is frame_size when it returns.
C2_FrameLength ==
    /\ rpc \in {"rf_loop", "ack"} =>
          /\ img_size <= frame_size
          /\ ImgName \in DOMAIN files
          /\ Len(files[ImgName]) = img_size
    /\ rpc = "ack" => img_size = frame_size

\* receive_frame returned on a connection that held more bytes than frame_size
C2_Witness ==
    /\ rpc = "ack"
    /\ frame_size = BUFSIZE + 1
    /\ img_size = frame_size
    /\ Len(c2s) > 0

\* C3: once send_frame has returned, the body bytes it handed to the connection
\* are as many as the size message announced, also when the file is rewritten
\* between send_frame_size and send_frame.
C3_SizeContract ==
    spc \in {"wa_recv", "wa_test", "advance"} => handed = announced

\* C4: the sender has put at most one size message more on the connection than
\* it has completed waits, and the i-th wait returned on the acknowledgment
\* naming the i-th frame.
C4_AckGated ==
    /\ nsizes <= Len(sacks) + 1
    /\ \A i \in 1..Len(sacks) : sacks[i] = OkFrameText(base + (i - 1) * inc)

\* the second frame's size is on its way after the first frame's acknowledgment
C4_Witness ==
    /\ nsizes = 2
    /\ Len(sacks) = 1
    /\ inc = 1

\* C5 as stated: send_frame sends the size after its pacing delay, and has read
\* the frame's acknowledgment when it returns.
C5_Original ==
    /\ spc = "sf_sleep" => nsizes = scount
    /\ spc = "wa_recv" => Len(sacks) = scount + 1

\* C5: per frame the sender sends the file's byte length (send_frame_size), then
\* sleeps and streams the body (send_frame, which returns without reading an
\* acknowledgment), then waits (waiting_for_ack); it moves to the next frame
\* only after a wait that returned on the acknowledgment of its frame number.
C5_Order ==
    [][ /\ (spc = "size" /\ spc' # "size") =>
              (spc' = "sf_sleep" /\ c2s' = c2s \o Str(Len(file)))
        /\ (spc = "sf_sleep" /\ spc' # "sf_sleep") =>
              (spc' = "sf_open" /\ nsizes = scount + 1 /\ handed = 0)
        /\ handed' > handed => (spc = "sf_loop" /\ c2s' = c2s \o buf)
        /\ (spc = "sf_loop" /\ spc' # "sf_loop") =>
              (spc' = "wa_recv" /\ s2c' = s2c /\ Len(sacks') = scount)
        /\ scount' # scount =>
              /\ Len(sacks) = scount + 1
              /\ sacks[Len(sacks)] = OkFrameText(sframe)
      ]_vars

\* a frame with a body has been sent and its acknowledgment read
C5_Witness ==
    /\ spc = "advance"
    /\ handed > 0
    /\ Len(sacks) = scount + 1

\* C6: the receiver puts a message on the connection only after receive_frame
\* has returned with frame_size bytes written, and the message is 'OK FRAME N'
\* for the frame N just stored; it is the receiver's next step.
C6_AckAfterFrame ==
    [][ /\ rsent' # rsent =>
              /\ rpc = "ack"
              /\ Len(stored) = Len(rsent) + 1
              /\ stored[Len(stored)] = rframe
              /\ img_size = frame_size
              /\ Len(Artifact) = frame_size
              /\ rsent' = Append(rsent, OkFrameText(rframe))
              /\ s2c' = s2c \o OkFrameText(rframe)
        /\ (rpc = "ack" /\ rpc' # "ack") => rsent' # rsent
      ]_vars

\* two frames acknowledged, the second with a body
C6_Witness ==
    /\ Len(rsent) = 2
    /\ rpc = "advance"
    /\ frame_size > 0

\* C7: waiting_for_ack returns only on a message equal to 'OK FRAME <frame>';
\* on any other message it reads again, and it raises nothing.
C7_AckMatch ==
    [][ /\ (spc = "wa_test" /\ spc' # spc /\ smsg # OkFrameText(sframe)) =>
              (spc' = "wa_recv" /\ sacks' = sacks /\ ~sclosed')
        /\ (spc = "wa_test" /\ spc' = "advance") =>
              (smsg = OkFrameText(sframe) /\ sacks' = Append(sacks, smsg))
        /\ spc' # "error"
      ]_vars

\* 'OK FRAME 1' was read and dropped while waiting for frame 10
C7_Witness ==
    /\ spc = "wa_recv"
    /\ sframe = 10
    /\ smsg = OkFrameText(1)

\* C8: the frames the receiver stores and acknowledges are base, base+inc, ...
\* in order, and the sender's waits return on the same acknowledgments.
C8_Sequencing ==
    /\ \A i \in 1..Len(stored) : stored[i] = base + (i - 1) * inc
    /\ \A i \in 1..Len(rsent) : rsent[i] = OkFrameText(base + (i - 1) * inc)
    /\ \A i \in 1..Len(sacks) : sacks[i] = OkFrameText(base + (i - 1) * inc)

\* C9: with frame_size 0 receive_frame leaves the loop without taking a byte
\* from the connection, the artifact exists and is empty, the acknowledgment
\* follows; send_frame hands no byte to the connection for an empty file.
C9_ZeroSize ==
    [][ /\ (rpc = "rf_loop" /\ frame_size = 0) =>
              /\ ImgName \in DOMAIN files
              /\ files[ImgName] = <<>>
              /\ files' = files
              /\ Len(c2s') >= Len(c2s)
              /\ rpc' \in {"rf_loop", "ack"}
        /\ (rpc = "ack" /\ frame_size = 0 /\ rpc' # "ack") =>
              s2c' = s2c \o OkFrameText(rframe)
        /\ (spc \in {"sf_open", "sf_loop"} /\ Len(file) = 0) =>
              /\ handed' = 0
              /\ Len(c2s') <= Len(c2s)
              /\ spc' # spc => spc' = IF spc = "sf_open" THEN "sf_loop" ELSE "wa_recv"
      ]_vars

\* an empty frame has been sent, stored and acknowledged
C9_Witness ==
    /\ rpc = "advance"
    /\ frame_size = 0
    /\ files[ImgName] = <<>>
    /\ Len(rsent) = 1
    /\ Len(file) = 0
    /\ handed = 0
    /\ spc = "wa_recv"

\* C10: however the body is cut into sends and reads, the bytes written, the
\* bytes on the connection and the bytes not yet sent are the body, in order;
\* so the artifact is the body when receive_frame returns.
C10_ChunkIndependent ==
    /\ Artifact \o c2s \o Unsent = file
    /\ rpc = "ack" => Artifact = file

\* a body with a newline inside, longer than one read, has been stored
C10_Witness ==
    /\ rpc = "ack"
    /\ Len(file) = BUFSIZE + 3
    /\ Artifact = file

\* C11: every receive_bytes_to_string call returns the whole text of exactly
\* the control message the receiver asked for: the total, the increment, or
\* the size of the frame the sender is at.
C11_Boundaries ==
    /\ rpc = "total_p" => rmsg = Str(total)
    /\ rpc = "inc_p" => rmsg = Str(inc)
    /\ rpc = "size_p" => rmsg = Str(announced)
    /\ rpc # "error"

\* C12 as stated: the socket init_server_socket returns is accepted, with one peer.
C12_Original ==
    ssock.pc = "returned" => (ssock.state = "accepted" /\ ssock.peers = 1)

\* C12: init_server_socket binds once to address:port, with the local host's
\* resolved address when address is omitted, and returns the socket merely
\* bound: not listening, no connection accepted, no peer.
C12_BoundOnly ==
    ssock.pc = "returned" =>
       /\ ssock.state = "bound"
       /\ ssock.peers = 0
       /\ ssock.attempts = 1
       /\ ssock.handle
       /\ ssock.local = <<IF ssock.address = "None" THEN "host" ELSE ssock.address,
                          ssock.port>>

\* returned from a call without an address
C12_Witness ==
    /\ ssock.pc = "returned"
    /\ ssock.address = "None"
    /\ ssock.local = <<"host", ssock.port>>

\* C13: after a failed connect or bind the factory has made one attempt, has
\* returned no socket, and has left no socket open.
C13_NoLeak ==
    /\ (csock.pc = "raised") =>
          (csock.attempts = 1 /\ ~csock.handle /\ csock.state # "open")
    /\ (ssock.pc = "raised" /\ ssock.attempts > 0) =>
          (ssock.attempts = 1 /\ ~ssock.handle /\ ssock.state # "open")

\* C14: while the bytes stored and the bytes the connection still holds are
\* together fewer than frame_size, receive_frame has not returned and has not
\* failed, and the artifact is shorter than frame_size; this holds when the
\* peer stalls and when the peer has closed.
C14_Undersupply ==
    Len(Artifact) + Len(c2s) < frame_size =>
       /\ rpc \in {"rf_open", "rf_loop"}
       /\ Len(Artifact) < frame_size

\* the peer has closed after a part of the body: every further read is empty
C14_Witness ==
    /\ rpc = "rf_loop"
    /\ sclosed
    /\ c2s = <<>>
    /\ 0 < img_size
    /\ img_size < frame_size
    /\ Len(Artifact) = img_size

\* C16: a read of receive_frame removes at most min(1024, frame_size - img_size)
\* bytes from the connection and appends them to the artifact; the artifact
\* never exceeds frame_size, so the bytes after the body stay in the connection.
C16_NoOverRead ==
    [][rpc = "rf_loop" =>
          /\ Len(c2s) - Len(c2s') <= Min(BUFSIZE, frame_size - img_size)
          /\ Artifact' \o c2s' = Artifact \o c2s
          /\ Len(Artifact') <= frame_size
          /\ rpc' = "ack" => Len(Artifact') = frame_size]_vars

\* receive_frame returned and the bytes after the body are still unread
C16_Witness ==
    /\ rpc = "ack"
    /\ frame_size = MaxBody - 1
    /\ Len(Artifact) = frame_size
    /\ Len(c2s) = 1

\* C15: once the receiver has sent 'OK FRAME N' for the frame the sender waits
\* on and the sender has read every byte of it, waiting_for_ack is not back at
\* its read: it has the acknowledgment in hand or has returned.
C15_AckWait ==
    (/\ Len(rsent) = scount + 1
     /\ rsent[Len(rsent)] = OkFrameText(sframe)
     /\ s2c = <<>>
     /\ ~rclosed) => spc # "wa_recv"

\* C17: the two drivers never reach a state where the sender is blocked reading
\* an acknowledgment and the receiver is blocked reading bytes, both on an empty
\* open connection; and when both are done each has handled exactly total frames.
C17_Progress ==
    /\ ~(/\ spc = "wa_recv" /\ s2c = <<>> /\ ~rclosed
         /\ c2s = <<>> /\ ~sclosed
         /\ \/ rpc \in {"total", "inc", "size"}
            \/ rpc = "rf_loop" /\ img_size < frame_size)
    /\ (spc = "done" /\ rpc = "done") =>
          (scount = total /\ rcount = total /\ Len(stored) = total)

\* C18 as stated: a wait that has read 'OK FRAME N' with a newline added has
\* accepted it, as it accepts 'OK FRAME N'.
C18_Original ==
    smsg = OkFrameText(sframe) \o <<NL>> => spc # "wa_recv"

\* C18: waiting_for_ack takes the text of each read as it is, newlines kept;
\* it returns only on a read that is exactly 'OK FRAME N', and a read of
\* 'OK FRAME N' followed by a newline sends it back to reading.
C18_NoStrip ==
    [][ /\ (spc = "wa_recv" /\ spc' = "wa_test") => smsg' \o s2c' = s2c
        /\ (spc = "wa_test" /\ spc' # spc /\ smsg = OkFrameText(sframe) \o <<NL>>) =>
              (spc' = "wa_recv" /\ sacks' = sacks)
        /\ spc' = "advance" => smsg = OkFrameText(sframe)
      ]_vars

\* 'OK FRAME N' with a newline was read whole and dropped; nothing is left to read
C18_Witness ==
    /\ spc = "wa_recv"
    /\ smsg = OkFrameText(sframe) \o <<NL>>
    /\ s2c = <<>>
    /\ sacks = <<>>

\* C19: receive_frame opens save_loc + 'frame' + decimal(N) + '.jpg': the file is
\* empty after the open and no other file changes; the name was in use before
\* exactly when frame number N was stored before; in a transfer whose increment
\* is not 0 the name was never in use before.
C19_Naming ==
    [][(rpc = "rf_open" /\ rpc' = "rf_loop") =>
          LET name == save_loc \o TxtFrame \o Str(rframe) \o TxtJpg
          IN  /\ DOMAIN files' = DOMAIN files \cup {name}
              /\ files'[name] = <<>>
              /\ \A n \in DOMAIN files \ {name} : files'[n] = files[n]
              /\ name \in DOMAIN files <=> \E i \in 1..Len(stored) : stored[i] = rframe
              /\ inc # 0 => name \notin DOMAIN files]_vars

====
